---- MODULE Spec2Model ----
(***************************************************************************)
(* Pico-Logger (pico_logger.h): the in-memory log store, the level/enable  *)
(* gate, the performance timer and the debug helpers, as a state machine.  *)
(*                                                                         *)
(* A text is a sequence of tokens (strings); concatenation of texts is \o. *)
(* The newline is the token "\n", so the lines of a file can be counted.   *)
(***************************************************************************)
EXTENDS Integers, Sequences, FiniteSets, TLC

VARIABLES
    logging_enabled,   \* static bool logging_enabled
    min_log_level,     \* static DebugLevel min_log_level
    start_time,        \* static struct timespec start_time, in clock units; 0 = {0}
    log_entries,       \* the initialised slots log_entries[0 .. log_count-1]
    log_capacity,      \* static size_t log_capacity
    log_count,         \* static size_t log_count
    running,           \* FALSE once the process has ended (exit, or a crash)
    files,             \* the file system: path -> NoFile or the file's text
    out,               \* what the last call wrote to stdout
    err,               \* what the last call wrote to stderr
    last,              \* the last call: which operation, with which inputs
    appended,          \* history: the texts handed to add_log_entry since the store was last empty
    since_flush,       \* history: the texts stored since the last successful flush
    ever_armed         \* history: log_performance(NULL) has been called

vars == <<logging_enabled, min_log_level, start_time, log_entries, log_capacity,
          log_count, running, files, out, err, last, appended, since_flush,
          ever_armed>>

store == <<log_entries, log_capacity, log_count>>
gate == <<logging_enabled, min_log_level>>

(***************************************************************************)
(* Bounds of the model and input sets.                                     *)
(***************************************************************************)
MaxLogCount == 3
MaxFileCount == 3
MaxGrowthCount == 33

DEBUG_LEVEL_INFO == 0
DEBUG_LEVEL_WARNING == 1
DEBUG_LEVEL_ERROR == 2
DEBUG_LEVEL_CRITICAL == 3
Levels == {DEBUG_LEVEL_INFO, DEBUG_LEVEL_WARNING, DEBUG_LEVEL_ERROR, DEBUG_LEVEL_CRITICAL}

INITIAL_CAPACITY == 16
LOG_LINE_SIZE == 512
BACKTRACE_FRAMES == 10
DUMP_COLUMNS == 16

NULL == "NULL"
NoFile == <<"<no file>">>
NL == "\n"
TIME == "2025-01-01 00:00:00"
LogPath == "app_logs.txt"
Paths == {LogPath}
\* Readings of CLOCK_MONOTONIC; the clock does not read {0, 0}.
ClockValues == {1, 2}
DumpSizes == {17}
TraceDepths == {2, 11}
AllocOutcomes == {"ok", "realloc_fail", "strdup_fail"}

\* A call site of the LOG_* macros in the program that includes the header.
UserLoc == [file |-> "main.c", line |-> "42", func |-> "main"]
\* The call site of LOG_ERROR inside log_performance.
PerfLoc == [file |-> "pico_logger.h", line |-> "166", func |-> "log_performance"]
PerfErrorMsg == <<"Start time not defined.">>

Min(a, b) == IF a < b THEN a ELSE b

(***************************************************************************)
(* log_message: the level's name and colour, and the two renderings.       *)
(***************************************************************************)
KNRM == "ESC[0m"
KRED == "ESC[31m"
KYEL == "ESC[33m"
KBLU == "ESC[34m"
KMAG == "ESC[35m"

LevelStr(level) ==
    CASE level = DEBUG_LEVEL_INFO -> "INFO"
      [] level = DEBUG_LEVEL_WARNING -> "WARNING"
      [] level = DEBUG_LEVEL_ERROR -> "ERROR"
      [] level = DEBUG_LEVEL_CRITICAL -> "CRITICAL"
      [] OTHER -> "UNKNOWN"

LevelColor(level) ==
    CASE level = DEBUG_LEVEL_INFO -> KBLU
      [] level = DEBUG_LEVEL_WARNING -> KYEL
      [] level = DEBUG_LEVEL_ERROR -> KRED
      [] level = DEBUG_LEVEL_CRITICAL -> KMAG
      [] OTHER -> KNRM

\* vsnprintf(log_line, sizeof(log_line), fmt, args): at most 511 characters kept.
FormatLogLine(msg) == SubSeq(msg, 1, Min(Len(msg), LOG_LINE_SIZE - 1))

\* The line printf writes to stdout.
FormatDisplay(level, loc, msg) ==
    <<"[", TIME, "] ", LevelColor(level), LevelStr(level), KNRM,
      " [", loc.file, ":", loc.line, "] ", loc.func, ": ">>
        \o FormatLogLine(msg) \o <<NL>>

\* full_log, the text handed to add_log_entry. snprintf cuts it at 1023
\* characters; with at most 511 characters of log_line that takes file and
\* function names of some 470 characters, which no call site here has.
FormatPlain(level, loc, msg) ==
    <<"[", TIME, "] ", LevelStr(level),
      " [", loc.file, ":", loc.line, "] ", loc.func, ": ">>
        \o FormatLogLine(msg)

\* A gate that also stops the minimum level itself (level <= min_log_level).
PassesGateStrict(level) == logging_enabled /\ ~(level <= min_log_level)

\* A gate that forgets logging_enabled.
PassesGateNoEnable(level) == ~(level < min_log_level)

\* The gate at the top of log_message: TRUE when the call goes on.
PassesGate(level) == logging_enabled /\ ~(level < min_log_level)

(***************************************************************************)
(* The record of the last call.                                            *)
(***************************************************************************)
\* op: the function called; level: its level argument, or -1; has_msg: a
\* non-null message was given; opened: fopen succeeded; failed: an
\* allocation the call made failed; fresh: for save_log_file, the number of
\* entries stored since the previous successful flush, or -1.
Call(op, level, has_msg, opened, failed, fresh) ==
    [op |-> op, level |-> level, has_msg |-> has_msg, opened |-> opened,
     failed |-> failed, fresh |-> fresh]

\* since_flush before any flush, and after a clear.
NoFlush == <<NoFile>>

\* The histories, when text is handed to add_log_entry.
Handed(text) ==
    /\ appended' = Append(appended, text)
    /\ since_flush' = IF since_flush = NoFlush THEN NoFlush
                      ELSE Append(since_flush, text)

(***************************************************************************)
(* add_log_entry.                                                          *)
(***************************************************************************)
\* Growth that forgets to double.
NewCapacityNoGrowth(capacity) == IF capacity = 0 THEN INITIAL_CAPACITY ELSE capacity

\* Growth by a fixed step instead of doubling.
NewCapacityLinear(capacity) ==
    IF capacity = 0 THEN INITIAL_CAPACITY ELSE capacity + INITIAL_CAPACITY

NewCapacity(capacity) == IF capacity = 0 THEN INITIAL_CAPACITY ELSE capacity * 2

\* realloc is called only when the array is full.
ReallocFails(alloc) == log_count = log_capacity /\ alloc = "realloc_fail"
StrdupFails(alloc) == ~ReallocFails(alloc) /\ alloc = "strdup_fail"
AllocFails(alloc) == ReallocFails(alloc) \/ StrdupFails(alloc)

\* The same without the check of strdup's result: the slot holds NULL,
\* the count goes up and the process goes on.
add_log_entry_unchecked(text, alloc) ==
    IF ReallocFails(alloc)
    THEN /\ err' = <<"Failed to allocate memory for log entries">>
         /\ running' = FALSE
         /\ UNCHANGED store
    ELSE /\ log_capacity' = IF log_count = log_capacity
                            THEN NewCapacity(log_capacity)
                            ELSE log_capacity
         /\ log_entries' = Append(log_entries,
                                  IF alloc = "strdup_fail" THEN <<NULL>> ELSE text)
         /\ log_count' = log_count + 1
         /\ err' = <<>>
         /\ UNCHANGED running

\* The store, stderr and the process after add_log_entry(text), under the
\* allocator's outcome alloc.
add_log_entry(text, alloc) ==
    IF ReallocFails(alloc)
    THEN /\ err' = <<"Failed to allocate memory for log entries">>
         /\ running' = FALSE
         /\ UNCHANGED store
    ELSE /\ log_capacity' = IF log_count = log_capacity
                            THEN NewCapacity(log_capacity)
                            ELSE log_capacity
         /\ IF alloc = "strdup_fail"
            THEN /\ err' = <<"Failed to allocate memory for log message">>
                 /\ running' = FALSE
                 /\ UNCHANGED <<log_entries, log_count>>
            ELSE /\ log_entries' = Append(log_entries, text)
                 /\ log_count' = log_count + 1
                 /\ err' = <<>>
                 /\ UNCHANGED running

(***************************************************************************)
(* free_log_entries.                                                       *)
(***************************************************************************)
free_log_entries ==
    /\ log_entries' = <<>>
    /\ log_capacity' = 0
    /\ log_count' = 0

(***************************************************************************)
(* log_message: everything but the record of the call.                     *)
(***************************************************************************)
log_message(level, loc, msg, alloc) ==
    IF ~PassesGate(level)
    THEN /\ out' = <<>>
         /\ err' = <<>>
         /\ UNCHANGED <<store, running, appended, since_flush>>
    ELSE /\ out' = <<FormatDisplay(level, loc, msg)>>
         /\ add_log_entry(FormatPlain(level, loc, msg), alloc)
         /\ Handed(FormatPlain(level, loc, msg))

LogMessage(level, msg, alloc, maxCount) ==
    /\ running
    /\ PassesGate(level) => log_count < maxCount
    /\ log_message(level, UserLoc, msg, alloc)
    /\ last' = Call("log_message", level, TRUE, FALSE,
                    PassesGate(level) /\ AllocFails(alloc), -1)
    /\ UNCHANGED <<gate, start_time, files, ever_armed>>

(***************************************************************************)
(* log_performance.                                                        *)
(***************************************************************************)
\* A test of start_time that zero passes too.
ArmedAlways == start_time >= 0

\* A test of start_time that nothing passes.
ArmedNever == start_time < 0

Armed == start_time # 0

MetricsLine(message, time_taken) ==
    <<"METRICS Function ", message, " took ", time_taken, " seconds to execute.", NL>>

LogPerformance(message, clock, alloc, maxCount) ==
    /\ running
    /\ clock >= start_time
    /\ IF message # NULL
       THEN IF Armed
            THEN /\ out' = <<MetricsLine(message, clock - start_time)>>
                 /\ err' = <<>>
                 /\ last' = Call("log_performance", -1, TRUE, FALSE, FALSE, -1)
                 /\ UNCHANGED <<store, running, appended, since_flush, start_time,
                                ever_armed>>
            ELSE /\ PassesGate(DEBUG_LEVEL_ERROR) => log_count < maxCount
                 /\ log_message(DEBUG_LEVEL_ERROR, PerfLoc, PerfErrorMsg, alloc)
                 /\ last' = Call("log_performance", -1, TRUE, FALSE,
                                 PassesGate(DEBUG_LEVEL_ERROR) /\ AllocFails(alloc), -1)
                 /\ UNCHANGED <<start_time, ever_armed>>
       ELSE /\ start_time' = clock
            /\ ever_armed' = TRUE
            /\ out' = <<>>
            /\ err' = <<>>
            /\ last' = Call("log_performance", -1, FALSE, FALSE, FALSE, -1)
            /\ UNCHANGED <<store, running, appended, since_flush>>
    /\ UNCHANGED <<gate, files>>

(***************************************************************************)
(* The gate's setters.                                                     *)
(***************************************************************************)
SetLoggingEnabled(enabled) ==
    /\ running
    /\ logging_enabled' = enabled
    /\ out' = <<>>
    /\ err' = <<>>
    /\ last' = Call("set_logging_enabled", -1, FALSE, FALSE, FALSE, -1)
    /\ UNCHANGED <<min_log_level, start_time, store, running, files, appended,
                   since_flush, ever_armed>>

SetMinimumLogLevel(level) ==
    /\ running
    /\ min_log_level' = level
    /\ out' = <<>>
    /\ err' = <<>>
    /\ last' = Call("set_minimum_log_level", level, FALSE, FALSE, FALSE, -1)
    /\ UNCHANGED <<logging_enabled, start_time, store, running, files, appended,
                   since_flush, ever_armed>>

(***************************************************************************)
(* save_log_file.                                                          *)
(***************************************************************************)
RECURSIVE FileText(_, _)
RECURSIVE FileTextReversed(_, _)
\* A loop that counts down: the newest entry first.
FileTextReversed(entries, n) ==
    IF n = 0 THEN <<>>
    ELSE entries[n] \o <<NL>> \o FileTextReversed(entries, n - 1)

\* What the loop's first n iterations write: each message, then a newline.
FileText(entries, n) ==
    IF n = 0 THEN <<>>
    ELSE FileText(entries, n - 1) \o entries[n] \o <<NL>>

\* A flush that releases the store once it has written it.
SaveLogFileClears(path, fopen_ok) ==
    /\ running
    /\ IF ~fopen_ok
       THEN /\ err' = <<"Failed to open log file">>
            /\ UNCHANGED <<files, since_flush, store>>
       ELSE /\ files' = [files EXCEPT ![path] = FileText(log_entries, log_count)]
            /\ since_flush' = <<>>
            /\ err' = <<>>
            /\ free_log_entries
    /\ out' = <<>>
    /\ last' = Call("save_log_file", -1, FALSE, fopen_ok, FALSE,
                    IF since_flush = NoFlush THEN -1 ELSE Len(since_flush))
    /\ UNCHANGED <<gate, start_time, running, appended, ever_armed>>

\* A flush that treats an open failure as add_log_entry treats an
\* allocation failure: exit(EXIT_FAILURE).
SaveLogFileFatal(path, fopen_ok) ==
    /\ running
    /\ IF ~fopen_ok
       THEN /\ err' = <<"Failed to open log file">>
            /\ running' = FALSE
            /\ UNCHANGED <<files, since_flush>>
       ELSE /\ files' = [files EXCEPT ![path] = FileText(log_entries, log_count)]
            /\ since_flush' = <<>>
            /\ err' = <<>>
            /\ UNCHANGED running
    /\ out' = <<>>
    /\ last' = Call("save_log_file", -1, FALSE, fopen_ok, FALSE,
                    IF since_flush = NoFlush THEN -1 ELSE Len(since_flush))
    /\ UNCHANGED <<gate, start_time, store, appended, ever_armed>>

SaveLogFile(path, fopen_ok) ==
    /\ running
    /\ IF ~fopen_ok
       THEN /\ err' = <<"Failed to open log file">>
            /\ UNCHANGED <<files, since_flush>>
       ELSE /\ files' = [files EXCEPT ![path] = FileText(log_entries, log_count)]
            /\ since_flush' = <<>>
            /\ err' = <<>>
    /\ out' = <<>>
    /\ last' = Call("save_log_file", -1, FALSE, fopen_ok, FALSE,
                    IF since_flush = NoFlush THEN -1 ELSE Len(since_flush))
    /\ UNCHANGED <<gate, start_time, store, running, appended, ever_armed>>

(***************************************************************************)
(* A clear of the store by the including program (free_log_entries).       *)
(***************************************************************************)
FreeLogEntries ==
    /\ running
    /\ free_log_entries
    /\ appended' = <<>>
    /\ since_flush' = NoFlush
    /\ out' = <<>>
    /\ err' = <<>>
    /\ last' = Call("free_log_entries", -1, FALSE, FALSE, FALSE, -1)
    /\ UNCHANGED <<gate, start_time, running, files, ever_armed>>

(***************************************************************************)
(* print_stack_trace and dump_memory.                                      *)
(***************************************************************************)
RECURSIVE Frames(_)
\* The loop's first n iterations: one symbol per line.
Frames(n) == IF n = 0 THEN <<>> ELSE Frames(n - 1) \o <<"frame", NL>>

\* backtrace stores at most 10 return addresses. backtrace_symbols returns
\* NULL when it cannot allocate; symbols[0] is then read through a null
\* pointer, which ends the process.
PrintStackTrace(depth, symbols_ok) ==
    LET size == Min(depth, BACKTRACE_FRAMES) IN
    /\ running
    /\ out' = <<NL, "Stack trace:", NL>> \o (IF symbols_ok THEN Frames(size) ELSE <<>>)
    /\ running' = (symbols_ok \/ size = 0)
    /\ err' = <<>>
    /\ last' = Call("print_stack_trace", -1, FALSE, FALSE, ~symbols_ok, -1)
    /\ UNCHANGED <<gate, start_time, store, files, appended, since_flush, ever_armed>>

RECURSIVE HexDump(_)
\* The loop's first n iterations: "xx " per byte, a newline after every 16th.
HexDump(n) ==
    IF n = 0 THEN <<>>
    ELSE HexDump(n - 1) \o <<"xx ">> \o (IF n % DUMP_COLUMNS = 0 THEN <<NL>> ELSE <<>>)

DumpMemory(size) ==
    /\ running
    /\ out' = <<NL, "Memory dump (", "label", "):", NL>> \o HexDump(size)
                \o (IF size % DUMP_COLUMNS # 0 THEN <<NL>> ELSE <<>>)
    /\ err' = <<>>
    /\ last' = Call("dump_memory", -1, FALSE, FALSE, FALSE, -1)
    /\ UNCHANGED <<gate, start_time, store, running, files, appended, since_flush,
                   ever_armed>>

(***************************************************************************)
(* The state at program start, and the program's steps.                    *)
(***************************************************************************)
Init ==
    /\ logging_enabled = TRUE
    /\ min_log_level = DEBUG_LEVEL_INFO
    /\ start_time = 0
    /\ log_entries = <<>>
    /\ log_capacity = 0
    /\ log_count = 0
    /\ running = TRUE
    /\ files = [p \in Paths |-> NoFile]
    /\ out = <<>>
    /\ err = <<>>
    /\ last = Call("start", -1, FALSE, FALSE, FALSE, -1)
    /\ appended = <<>>
    /\ since_flush = NoFlush
    /\ ever_armed = FALSE

(***************************************************************************)
(* The including program and its environment: the levels and messages it   *)
(* logs with, the arguments it gives log_performance, the outcomes of      *)
(* fopen, and the bound on the number of stored entries.                   *)
(***************************************************************************)
NextOf(env) ==
    \/ \E level \in env.levels, msg \in env.messages, alloc \in AllocOutcomes :
          LogMessage(level, msg, alloc, env.max_count)
    \/ \E message \in env.perf_args, clock \in ClockValues, alloc \in AllocOutcomes :
          LogPerformance(message, clock, alloc, env.max_count)
    \/ \E enabled \in BOOLEAN : SetLoggingEnabled(enabled)
    \/ \E level \in Levels : SetMinimumLogLevel(level)
    \/ \E path \in Paths, fopen_ok \in env.fopen : SaveLogFile(path, fopen_ok)
    \/ FreeLogEntries
    \/ \E depth \in TraceDepths, symbols_ok \in BOOLEAN :
          PrintStackTrace(depth, symbols_ok)
    \/ \E size \in DumpSizes : DumpMemory(size)

\* Every level, with and without an armed timer, on a disk fopen fails on.
GateEnv ==
    [levels |-> Levels, messages |-> {<<"m">>}, perf_args |-> {NULL, "work"},
     fopen |-> {FALSE}, max_count |-> MaxLogCount]

\* Two messages, one with a newline in it, flushed to a file.
FileEnv ==
    [levels |-> {DEBUG_LEVEL_WARNING}, messages |-> {<<"a">>, <<"b", NL, "c">>},
     perf_args |-> {NULL}, fopen |-> BOOLEAN, max_count |-> MaxFileCount]

\* One message, often enough for the array to grow three times, on a disk
\* fopen fails on.
GrowthEnv ==
    [levels |-> {DEBUG_LEVEL_CRITICAL}, messages |-> {<<"m">>}, perf_args |-> {NULL},
     fopen |-> {FALSE}, max_count |-> MaxGrowthCount]

Next == NextOf(GateEnv)
Spec == Init /\ [][Next]_vars
SpecFile == Init /\ [][NextOf(FileEnv)]_vars
SpecGrowth == Init /\ [][NextOf(GrowthEnv)]_vars


(***************************************************************************)
(* Vocabulary of the properties.                                           *)
(***************************************************************************)
RECURSIVE RecordsOf(_)
\* texts[1], a newline, texts[2], a newline, ...
RecordsOf(texts) ==
    IF texts = <<>> THEN <<>>
    ELSE Head(texts) \o <<NL>> \o RecordsOf(Tail(texts))

RECURSIVE EachWithNewline(_)
\* The sequence of the texts, each followed by a newline.
EachWithNewline(texts) ==
    IF texts = <<>> THEN <<>>
    ELSE <<Head(texts) \o <<NL>>>> \o EachWithNewline(Tail(texts))

RECURSIVE SplitFrom(_, _)
SplitFrom(text, line) ==
    IF text = <<>> THEN (IF line = <<>> THEN <<>> ELSE <<line>>)
    ELSE IF Head(text) = NL
         THEN <<Append(line, NL)>> \o SplitFrom(Tail(text), <<>>)
         ELSE SplitFrom(Tail(text), Append(line, Head(text)))

\* The lines of a text, each with the newline that ends it.
SplitLines(text) == SplitFrom(text, <<>>)

NoNewline(texts) ==
    \A i \in 1..Len(texts) : \A j \in 1..Len(texts[i]) : texts[i][j] # NL

\* The state right after a successful save_log_file.
FlushedOk == last.op = "save_log_file" /\ last.opened

\* A display line of log_message at level ERROR, and a stored one.
IsErrorDisplay(line) == Len(line) >= 5 /\ line[4] = "ESC[31m" /\ line[5] = "ERROR"
IsErrorEntry(text) == Len(text) >= 4 /\ text[4] = "ERROR"
IsMetrics(line) == Len(line) >= 1 /\ line[1] = "METRICS Function "
NoMetrics(output) == \A i \in 1..Len(output) : ~IsMetrics(output[i])

\* The step is a call of op.
Called(op) == last'.op = op

(***************************************************************************)
(* C1. After N appends to the empty store, a successful save_log_file      *)
(* leaves in the file exactly the N appended texts, in append order, each  *)
(* followed by a newline, and nothing else; these are N lines, the i-th    *)
(* the i-th text, when no appended text holds a newline itself.            *)
(***************************************************************************)
C1_FlushWritesRecordsInOrder ==
    FlushedOk =>
        /\ files[LogPath] = RecordsOf(appended)
        /\ NoNewline(appended) =>
               SplitLines(files[LogPath]) = EachWithNewline(appended)

\* C1 as stated: the file holds exactly N lines, the i-th being the i-th text.
C1_Original_ExactlyNLines ==
    FlushedOk => SplitLines(files[LogPath]) = EachWithNewline(appended)

C1_Witness ==
    /\ FlushedOk
    /\ Len(appended) = 3
    /\ appended[1] # appended[2]
    /\ files[LogPath] = appended[1] \o <<NL>> \o appended[2] \o <<NL>> \o appended[3] \o <<NL>>

(***************************************************************************)
(* C2. Level gating: with logging enabled, a log_message call at level L   *)
(* that returns has written exactly one display line and appended exactly  *)
(* one entry when L >= min_log_level, and has written nothing and left the *)
(* store's count, capacity and entries alone when L < min_log_level.       *)
(***************************************************************************)
C2_LevelGating ==
    [][(Called("log_message") /\ logging_enabled /\ running') =>
         IF last'.level >= min_log_level
         THEN /\ Len(out') = 1
              /\ log_count' = log_count + 1
              /\ Len(log_entries') = Len(log_entries) + 1
              /\ SubSeq(log_entries', 1, Len(log_entries)) = log_entries
         ELSE /\ out' = <<>>
              /\ UNCHANGED store]_vars

C2_Witness ==
    /\ last.op = "log_message"
    /\ last.level = DEBUG_LEVEL_ERROR
    /\ min_log_level = DEBUG_LEVEL_ERROR
    /\ logging_enabled
    /\ running
    /\ Len(out) = 1
    /\ log_count = 2

(***************************************************************************)
(* C3. Enable gating: while logging is disabled no log call, at any level, *)
(* and no ERROR report of the timer writes output or changes the store;   *)
(* nothing but a clear changes the store while logging is disabled; and    *)
(* set_logging_enabled leaves the minimum level and the store as they are, *)
(* so the entries stored before the disable are there after the enable.    *)
(***************************************************************************)
C3_EnableGating ==
    [][/\ (~logging_enabled /\ Called("log_message")) =>
              (out' = <<>> /\ err' = <<>> /\ running' /\ UNCHANGED store)
       /\ (~logging_enabled /\ Called("log_performance") /\ last'.has_msg /\ ~ever_armed) =>
              (out' = <<>> /\ err' = <<>> /\ running' /\ UNCHANGED store)
       /\ (~logging_enabled /\ ~Called("free_log_entries")) => UNCHANGED store
       /\ Called("set_logging_enabled") => UNCHANGED <<store, min_log_level>>]_vars

C3_Witness ==
    /\ ~logging_enabled
    /\ last.op = "log_message"
    /\ last.level = DEBUG_LEVEL_CRITICAL
    /\ out = <<>>
    /\ log_count = 2
    /\ running

(***************************************************************************)
(* C4. Flush does not clear: save_log_file leaves count, capacity and      *)
(* entries alone, and a successful flush that follows a successful flush   *)
(* with no clear in between writes the earlier file's content followed by  *)
(* the entries appended since (the same content when there are none).      *)
(***************************************************************************)
C4_FlushDoesNotClear ==
    [][Called("save_log_file") =>
         /\ UNCHANGED store
         /\ (last'.opened /\ since_flush # NoFlush) =>
                files'[LogPath] = files[LogPath] \o RecordsOf(since_flush)]_vars

C4_Witness ==
    /\ FlushedOk
    /\ last.fresh = 1
    /\ log_count = 3
    /\ files[LogPath] = RecordsOf(log_entries)

(***************************************************************************)
(* C5. Timer protocol: while the timer has never been armed,               *)
(* log_performance with a message writes no METRICS line; when the gate    *)
(* lets ERROR through it writes one ERROR display line and, unless the     *)
(* store's allocation fails and ends the process, appends one ERROR entry; *)
(* when the gate does not, it writes nothing and appends nothing.          *)
(***************************************************************************)
C5_ReportUnarmed ==
    [][(Called("log_performance") /\ last'.has_msg /\ ~ever_armed) =>
         /\ NoMetrics(out')
         /\ IF logging_enabled /\ min_log_level <= DEBUG_LEVEL_ERROR
            THEN /\ Len(out') = 1
                 /\ IsErrorDisplay(out'[1])
                 /\ IF last'.failed
                    THEN ~running' /\ UNCHANGED <<log_entries, log_count>>
                    ELSE /\ running'
                         /\ log_count' = log_count + 1
                         /\ Len(log_entries') = Len(log_entries) + 1
                         /\ SubSeq(log_entries', 1, Len(log_entries)) = log_entries
                         /\ IsErrorEntry(log_entries'[log_count'])
            ELSE /\ out' = <<>>
                 /\ running'
                 /\ UNCHANGED store]_vars

\* C5 as stated, for the calls whose allocations succeed: in every state
\* with the timer never armed, the report writes one ERROR display line,
\* appends one ERROR entry and the process goes on.
C5_Original_AlwaysLogsError ==
    [][(Called("log_performance") /\ last'.has_msg /\ ~ever_armed /\ ~last'.failed) =>
         /\ NoMetrics(out')
         /\ Len(out') = 1
         /\ IsErrorDisplay(out'[1])
         /\ log_count' = log_count + 1
         /\ IsErrorEntry(log_entries'[log_count'])
         /\ running']_vars

C5_Witness ==
    /\ last.op = "log_performance"
    /\ last.has_msg
    /\ ~ever_armed
    /\ running
    /\ Len(out) = 1
    /\ IsErrorDisplay(out[1])
    /\ log_count = 2
    /\ IsErrorEntry(log_entries[2])

(***************************************************************************)
(* C6. Append never fails silently: a call whose allocation failed has     *)
(* ended the process; while the process runs, every text handed to         *)
(* add_log_entry since the store was empty is in the store, in order, and  *)
(* log_count counts exactly the entries, each with a text of its own.      *)
(***************************************************************************)
C6_AppendNeverFailsSilently ==
    /\ (last.op \in {"log_message", "log_performance"} /\ last.failed) => ~running
    /\ running =>
          /\ Len(log_entries) = log_count
          /\ log_entries = appended
          /\ \A i \in 1..log_count : log_entries[i] # <<NULL>>

C6_Witness ==
    /\ last.op = "log_message"
    /\ last.failed
    /\ ~running
    /\ log_count = 16
    /\ log_capacity = 16
    /\ err = <<"Failed to allocate memory for log entries">>

(***************************************************************************)
(* C7. A flush that cannot open its path reports the error on stderr,      *)
(* writes to no file, leaves the store and the gate as they are, and the   *)
(* process goes on; a later flush that can open the path writes every      *)
(* entry, in order.                                                        *)
(***************************************************************************)
C7_OpenFailureRecoverable ==
    [][/\ (Called("save_log_file") /\ ~last'.opened) =>
              /\ err' = <<"Failed to open log file">>
              /\ out' = <<>>
              /\ running'
              /\ UNCHANGED <<files, store, gate>>
       /\ (Called("save_log_file") /\ last'.opened) =>
              files'[LogPath] = RecordsOf(appended')]_vars

C7_Witness ==
    /\ last.op = "save_log_file"
    /\ ~last.opened
    /\ running
    /\ err = <<"Failed to open log file">>
    /\ log_count = 2
    /\ files[LogPath] = NoFile

(***************************************************************************)
(* C8. In every reachable state the store's capacity is at least its count.*)
(***************************************************************************)
C8_CapacityAtLeastCount == log_capacity >= log_count

C8_Witness ==
    /\ log_count = 33
    /\ log_capacity = 64
    /\ running

(***************************************************************************)
(* C9. Geometric growth: a call changes the capacity only when count       *)
(* equals capacity, to 16 from 0 and to twice the capacity otherwise; an   *)
(* append with count below capacity leaves it alone; so the capacity is 16 *)
(* after the 1st append and 32 after the 17th, and the count never exceeds *)
(* the capacity.                                                           *)
(***************************************************************************)
C9_GeometricGrowth ==
    [][/\ (log_capacity' # log_capacity /\ ~Called("free_log_entries")) =>
              /\ log_count = log_capacity
              /\ log_capacity' = IF log_capacity = 0 THEN 16 ELSE 2 * log_capacity
       /\ log_count' = log_count + 1 =>
              /\ log_capacity' = IF log_count < log_capacity THEN log_capacity
                                 ELSE IF log_capacity = 0 THEN 16
                                 ELSE 2 * log_capacity
              /\ log_count' <= log_capacity'
              /\ log_count' = 1 => log_capacity' = 16
              /\ log_count' = 17 => log_capacity' = 32]_vars

C9_Witness ==
    /\ last.op = "log_message"
    /\ log_count = 17
    /\ log_capacity = 32
    /\ running

(***************************************************************************)
(* C10. print_stack_trace, dump_memory and log_performance leave the       *)
(* store's count, capacity and entries as they are, but for one call:      *)
(* log_performance with a message while the timer was never armed and the  *)
(* gate lets ERROR through, which, when it returns, has appended one ERROR *)
(* entry.                                                                  *)
(***************************************************************************)
DebugTools == {"log_performance", "print_stack_trace", "dump_memory"}

C10_DebugToolsAndStore ==
    [][last'.op \in DebugTools =>
         IF /\ Called("log_performance")
            /\ last'.has_msg
            /\ ~ever_armed
            /\ logging_enabled
            /\ min_log_level <= DEBUG_LEVEL_ERROR
         THEN running' =>
                  /\ log_count' = log_count + 1
                  /\ Len(log_entries') = log_count'
                  /\ SubSeq(log_entries', 1, Len(log_entries)) = log_entries
                  /\ IsErrorEntry(log_entries'[log_count'])
         ELSE UNCHANGED store]_vars

\* C10 as stated: no call of a debug tool changes the store.
C10_Original_NeverTouchesStore ==
    [][last'.op \in DebugTools => UNCHANGED store]_vars

C10_Witness ==
    /\ last.op = "log_performance"
    /\ last.has_msg
    /\ ever_armed
    /\ Len(out) = 1
    /\ IsMetrics(out[1])
    /\ log_count = 2
    /\ running

====
